---- MODULE Spec2Model ----
(***************************************************************************)
(* Streaming markdown controller of codex-rs/tui: the stable/tail buffer   *)
(* of StreamController (streaming/controller.rs), its table holdback       *)
(* detector (controller.rs, table_detect.rs) and the fence unwrapping of   *)
(* markdown.rs.                                                            *)
(*                                                                         *)
(* Text is a sequence of one-character strings.  Option<T> is a sequence   *)
(* of length 0 (None) or 1 (Some).                                         *)
(***************************************************************************)
EXTENDS Integers, Sequences, FiniteSets, TLC

NL == "\n"
\* the backtick character (the TLA+ lexer accepts no backtick in a string)
BT == "^"

(***************************************************************************)
(* Rust std string helpers, as the source uses them.                       *)
(***************************************************************************)
IsWs(c) == c \in {" ", "\t", "\n", "\r"}

RECURSIVE trim_start(_)
trim_start(s) == IF s # <<>> /\ IsWs(Head(s)) THEN trim_start(Tail(s)) ELSE s

RECURSIVE trim_end(_)
trim_end(s) ==
    IF s # <<>> /\ IsWs(s[Len(s)]) THEN trim_end(SubSeq(s, 1, Len(s) - 1)) ELSE s

trim(s) == trim_end(trim_start(s))

\* str::strip_prefix(ch).unwrap_or(s)
strip_prefix_or(s, ch) == IF s # <<>> /\ Head(s) = ch THEN Tail(s) ELSE s

\* str::strip_suffix(ch).unwrap_or(s)
strip_suffix_or(s, ch) ==
    IF s # <<>> /\ s[Len(s)] = ch THEN SubSeq(s, 1, Len(s) - 1) ELSE s

\* index of the first ch in s, 0 when there is none
RECURSIVE find_from(_, _, _)
find_from(s, ch, i) ==
    IF i > Len(s) THEN 0 ELSE IF s[i] = ch THEN i ELSE find_from(s, ch, i + 1)

\* str::split(ch): "a|b" -> [a, b], "a|" -> [a, ""], "" -> [""]
RECURSIVE split(_, _)
split(s, ch) ==
    LET i == find_from(s, ch, 1)
    IN  IF i = 0 THEN <<s>>
        ELSE <<SubSeq(s, 1, i - 1)>> \o split(SubSeq(s, i + 1, Len(s)), ch)

\* str::split_inclusive(NL): every piece keeps its newline, no empty last piece
RECURSIVE split_inclusive(_)
split_inclusive(s) ==
    LET i == find_from(s, NL, 1)
    IN  IF s = <<>> THEN <<>>
        ELSE IF i = 0 THEN <<s>>
        ELSE <<SubSeq(s, 1, i)>> \o split_inclusive(SubSeq(s, i + 1, Len(s)))

\* str::split_whitespace().next().unwrap_or_default()
RECURSIVE take_word(_)
take_word(s) ==
    IF s = <<>> \/ IsWs(Head(s)) THEN <<>> ELSE <<Head(s)>> \o take_word(Tail(s))

first_word(s) == take_word(trim_start(s))

\* number of leading characters of s equal to ch
RECURSIVE run_len(_, _)
run_len(s, ch) == IF s # <<>> /\ Head(s) = ch THEN 1 + run_len(Tail(s), ch) ELSE 0

drop(s, n) == SubSeq(s, n + 1, Len(s))

to_ascii_lowercase(c) ==
    CASE c = "M" -> "m" [] c = "D" -> "d" [] OTHER -> c

eq_ignore_ascii_case(s, t) ==
    /\ Len(s) = Len(t)
    /\ \A i \in 1..Len(s) : to_ascii_lowercase(s[i]) = to_ascii_lowercase(t[i])

RECURSIVE concat(_)
concat(ss) == IF ss = <<>> THEN <<>> ELSE Head(ss) \o concat(Tail(ss))

(***************************************************************************)
(* table_detect.rs                                                         *)
(***************************************************************************)
\* Option<Vec<&str>>: <<>> or <<segments>>
\* mutant: a single segment is returned too
parse_table_segments_single(line) ==
    LET trimmed == trim(line)
        content == strip_suffix_or(strip_prefix_or(trimmed, "|"), "|")
        pieces == split(content, "|")
        segments == [i \in 1..Len(pieces) |-> trim(pieces[i])]
    IN  IF trimmed = <<>> THEN <<>> ELSE <<segments>>

parse_table_segments(line) ==
    LET trimmed == trim(line)
        content == strip_suffix_or(strip_prefix_or(trimmed, "|"), "|")
        pieces == split(content, "|")
        segments == [i \in 1..Len(pieces) |-> trim(pieces[i])]
    IN  IF trimmed = <<>> THEN <<>>
        ELSE IF Len(segments) >= 2 THEN <<segments>> ELSE <<>>

is_table_header_line(line) ==
    LET p == parse_table_segments(line)
    IN  p # <<>> /\ \E i \in 1..Len(p[1]) : p[1][i] # <<>>

\* mutant: two dashes are enough
is_table_delimiter_segment_two_dashes(segment) ==
    LET trimmed == trim(segment)
        without_leading == strip_prefix_or(trimmed, ":")
        without_ends == strip_suffix_or(without_leading, ":")
    IN  /\ trimmed # <<>>
        /\ Len(without_ends) >= 2
        /\ \A i \in 1..Len(without_ends) : without_ends[i] = "-"

is_table_delimiter_segment(segment) ==
    LET trimmed == trim(segment)
        without_leading == strip_prefix_or(trimmed, ":")
        without_ends == strip_suffix_or(without_leading, ":")
    IN  /\ trimmed # <<>>
        /\ Len(without_ends) >= 3
        /\ \A i \in 1..Len(without_ends) : without_ends[i] = "-"

is_table_delimiter_line(line) ==
    LET p == parse_table_segments(line)
    IN  p # <<>> /\ \A i \in 1..Len(p[1]) : is_table_delimiter_segment(p[1][i])

(***************************************************************************)
(* controller.rs: the table holdback detector                              *)
(***************************************************************************)
\* Option<(char, usize)>
parse_fence_marker(line) ==
    IF line = <<>> THEN <<>>
    ELSE LET first == Head(line)
             len == run_len(line, first)
         IN  IF first # BT /\ first # "~" THEN <<>>
             ELSE IF len < 3 THEN <<>>
             ELSE << <<first, len>> >>

is_markdown_fence(trimmed_line, marker_len) ==
    LET info == first_word(drop(trimmed_line, marker_len))
    IN  \/ eq_ignore_ascii_case(info, <<"m", "d">>)
        \/ eq_ignore_ascii_case(info, <<"m", "a", "r", "k", "d", "o", "w", "n">>)

\* the loop of parse_lines_with_fence_state over the remaining lines
RECURSIVE fence_scan(_, _, _, _)
fence_scan(ls, in_fence, fence_char, fence_context) ==
    IF ls = <<>> THEN <<>>
    ELSE
      LET raw_line == Head(ls)
          trimmed == trim_start(raw_line)
          m == parse_fence_marker(trimmed)
          here == [text |-> raw_line,
                   fence_context |-> IF in_fence THEN fence_context ELSE "Outside"]
      IN  <<here>> \o
          (IF m # <<>> /\ ~in_fence
             THEN fence_scan(Tail(ls), TRUE, m[1][1],
                             IF is_markdown_fence(trimmed, m[1][2])
                               THEN "Markdown" ELSE "Other")
           ELSE IF m # <<>> /\ in_fence /\ m[1][1] = fence_char /\ m[1][2] >= 3
             THEN fence_scan(Tail(ls), FALSE, fence_char, "Other")
           ELSE fence_scan(Tail(ls), in_fence, fence_char, fence_context))

parse_lines_with_fence_state(source) ==
    fence_scan(split(source, NL), FALSE, "NUL", "Other")

RECURSIVE strip_blockquote_loop(_)
strip_blockquote_loop(rest) ==
    IF rest = <<>> \/ Head(rest) # ">" THEN rest
    ELSE strip_blockquote_loop(trim_start(strip_prefix_or(Tail(rest), " ")))

strip_blockquote_prefix(line) == strip_blockquote_loop(trim_start(line))

\* mutant: the candidate text keeps its blockquote prefix
table_candidate_text_keeps_prefix(line) ==
    LET stripped == trim(line)
    IN  IF parse_table_segments(stripped) # <<>> THEN <<stripped>> ELSE <<>>

\* Option<&str>
table_candidate_text(line) ==
    LET stripped == trim(strip_blockquote_prefix(line))
    IN  IF parse_table_segments(stripped) # <<>> THEN <<stripped>> ELSE <<>>

\* table_detect::is_header_candidate on a TableScanLine {text, enabled}
is_header_candidate(text, enabled) ==
    enabled /\ is_table_header_line(text) /\ ~is_table_delimiter_line(text)

\* the windows(2) loop of table_holdback_state: some pair confirms a table
has_confirmed_pair(lines) ==
    \E i \in 1..(Len(lines) - 1) :
        LET header_line == lines[i]
            delimiter_line == lines[i + 1]
            header_text == table_candidate_text(header_line.text)
            delimiter_text == table_candidate_text(delimiter_line.text)
        IN  /\ header_line.fence_context # "Other"
            /\ delimiter_line.fence_context # "Other"
            /\ header_text # <<>>
            /\ delimiter_text # <<>>
            /\ is_table_header_line(header_text[1])
            /\ is_table_delimiter_line(delimiter_text[1])

\* lines.iter().rev().find(|line| !line.text.trim().is_empty()): index or 0
RECURSIVE last_nonblank(_, _)
last_nonblank(lines, i) ==
    IF i = 0 THEN 0
    ELSE IF trim(lines[i].text) # <<>> THEN i ELSE last_nonblank(lines, i - 1)

\* mutant: the pending-header test ignores the fence context
has_pending_header_any_fence(lines) ==
    LET i == last_nonblank(lines, Len(lines))
    IN  /\ i # 0
        /\ LET t == table_candidate_text(lines[i].text)
           IN  t # <<>> /\ is_table_header_line(t[1])

has_pending_header(lines) ==
    LET i == last_nonblank(lines, Len(lines))
    IN  /\ i # 0
        /\ lines[i].fence_context # "Other"
        /\ LET t == table_candidate_text(lines[i].text)
           IN  t # <<>> /\ is_table_header_line(t[1])

\* table_detect::scan_table_pattern over TableScanLine records {text, enabled}
scan_table_pattern(lines) ==
    IF \E i \in 1..(Len(lines) - 1) :
           /\ is_header_candidate(lines[i].text, lines[i].enabled)
           /\ lines[i + 1].enabled
           /\ is_table_delimiter_line(lines[i + 1].text)
      THEN "Confirmed"
    ELSE LET i == last_nonblank(lines, Len(lines))
         IN  IF i # 0 /\ is_header_candidate(lines[i].text, lines[i].enabled)
               THEN "PendingHeader" ELSE "None"

table_holdback_state(source) ==
    LET lines == parse_lines_with_fence_state(source)
    IN  IF has_confirmed_pair(lines) THEN "Confirmed"
        ELSE IF has_pending_header(lines) THEN "PendingHeader"
        ELSE "None"

(***************************************************************************)
(* markdown.rs: unwrap_markdown_fences                                     *)
(***************************************************************************)
\* number of leading ' ' bytes
leading_spaces(s) == run_len(s, " ")

count_char(s, ch) == Cardinality({i \in 1..Len(s) : s[i] = ch})

\* Option<Fence>
parse_open_fence(line) ==
    LET without_newline == strip_suffix_or(line, NL)
        leading_ws == leading_spaces(without_newline)
        trimmed == drop(without_newline, leading_ws)
        marker == Head(trimmed)
        len == run_len(trimmed, marker)
        info == first_word(trim(drop(trimmed, len)))
    IN  IF leading_ws > 3 \/ trimmed = <<>> THEN <<>>
        ELSE IF marker # BT /\ marker # "~" THEN <<>>
        ELSE IF len < 3 THEN <<>>
        ELSE <<[marker |-> marker, len |-> len,
                is_markdown |->
                    \/ eq_ignore_ascii_case(info, <<"m", "d">>)
                    \/ eq_ignore_ascii_case(info,
                           <<"m", "a", "r", "k", "d", "o", "w", "n">>)]>>

is_close_fence(line, fence) ==
    LET without_newline == strip_suffix_or(line, NL)
        leading_ws == leading_spaces(without_newline)
        trimmed == drop(without_newline, leading_ws)
        len == run_len(trimmed, fence.marker)
    IN  /\ leading_ws <= 3
        /\ trimmed # <<>> /\ Head(trimmed) = fence.marker
        /\ len >= fence.len
        /\ trim(drop(trimmed, len)) = <<>>

is_table_candidate_line(line) ==
    LET trimmed == trim(line)
        pieces == split(trimmed, "|")
    IN  /\ count_char(trimmed, "|") >= 2
        /\ \/ Head(trimmed) = "|"
           \/ \A i \in 1..Len(pieces) : trim(pieces[i]) # <<>>

\* str::trim_matches('|')
RECURSIVE trim_pipes(_)
trim_pipes(s) ==
    IF s # <<>> /\ Head(s) = "|" THEN trim_pipes(Tail(s))
    ELSE IF s # <<>> /\ s[Len(s)] = "|" THEN trim_pipes(SubSeq(s, 1, Len(s) - 1))
    ELSE s

\* the is_table_delimiter_line local to unwrap_markdown_fences
unwrap_is_table_delimiter_line(line) ==
    LET trimmed == trim(line)
        segments == IF trimmed # <<>> /\ Head(trimmed) = "|"
                      THEN split(trim_pipes(trimmed), "|")
                      ELSE split(trimmed, "|")
    IN  /\ count_char(trimmed, "|") >= 2
        /\ \A k \in 1..Len(segments) :
              LET value == trim(segments[k])
              IN  /\ value # <<>>
                  /\ \A i \in 1..Len(value) : value[i] \in {"-", ":"}
                  /\ \E i \in 1..Len(value) : value[i] = "-"

markdown_fence_contains_table(content) ==
    LET ls == split_inclusive(content)
        cand == {i \in 1..Len(ls) :
                    /\ trim(ls[i]) # <<>>
                    /\ is_table_candidate_line(trim(ls[i]))}
    IN  /\ \E i \in cand : ~unwrap_is_table_delimiter_line(trim(ls[i]))
        /\ \E i \in cand : unwrap_is_table_delimiter_line(trim(ls[i]))

NoFence == [kind |-> "None"]

\* the main loop of unwrap_markdown_fences and the flush that follows it
RECURSIVE unwrap_loop(_, _, _)
unwrap_loop(ls, active, out) ==
    IF ls = <<>> THEN
        IF active.kind = "MarkdownCandidate"
          THEN out \o active.opening_line \o active.content
          ELSE out
    ELSE
      LET line == Head(ls)
          open == parse_open_fence(line)
      IN  CASE active.kind = "Passthrough" ->
                 unwrap_loop(Tail(ls),
                             IF is_close_fence(line, active.fence)
                               THEN NoFence ELSE active,
                             out \o line)
            [] active.kind = "MarkdownCandidate" ->
                 IF is_close_fence(line, active.fence)
                   THEN unwrap_loop(Tail(ls), NoFence,
                            IF markdown_fence_contains_table(active.content)
                              THEN out \o active.content
                              ELSE out \o active.opening_line \o active.content
                                       \o line)
                   ELSE unwrap_loop(Tail(ls),
                            [active EXCEPT !.content = @ \o line], out)
            [] OTHER ->
                 IF open = <<>> THEN unwrap_loop(Tail(ls), NoFence, out \o line)
                 ELSE IF open[1].is_markdown
                   THEN unwrap_loop(Tail(ls),
                            [kind |-> "MarkdownCandidate", fence |-> open[1],
                             opening_line |-> line, content |-> <<>>], out)
                   ELSE unwrap_loop(Tail(ls),
                            [kind |-> "Passthrough", fence |-> open[1]],
                            out \o line)

unwrap_markdown_fences(markdown_source) ==
    unwrap_loop(split_inclusive(markdown_source), NoFence, <<>>)

(***************************************************************************)
(* The markdown renderer behind append_markdown (markdown_render, not part *)
(* of the sources at hand): a pure function from source and width to       *)
(* lines.  Prose lines wrap at the width; fenced code is verbatim and not  *)
(* wrapped, its fence lines are not shown; a header row directly followed  *)
(* by a delimiter row starts a table that runs to the next blank line and  *)
(* whose column width is that of its widest cell; a run of blank lines     *)
(* between two blocks is one empty line.                                   *)
(***************************************************************************)
None == <<>>
Some(x) == <<x>>

RECURSIVE rep(_, _)
rep(ch, n) == IF n <= 0 THEN <<>> ELSE <<ch>> \o rep(ch, n - 1)

RECURSIVE wrap_line(_, _)
wrap_line(text, width) ==
    IF width = None \/ Len(text) <= width[1] THEN <<text>>
    ELSE <<SubSeq(text, 1, width[1])>> \o wrap_line(drop(text, width[1]), width)

table_cells(row) ==
    LET t == table_candidate_text(row)
    IN  IF t = <<>> THEN <<trim(row)>> ELSE parse_table_segments(t[1])[1]

max_cell(cells) ==
    LET lens == {Len(cells[i]) : i \in 1..Len(cells)}
    IN  CHOOSE m \in lens : \A n \in lens : n <= m

table_col_width(rows) ==
    LET ws == {max_cell(table_cells(rows[i])) : i \in (1..Len(rows)) \ {2}}
    IN  CHOOSE m \in ws : \A n \in ws : n <= m

RECURSIVE table_row_line(_, _)
table_row_line(cells, w) ==
    IF cells = <<>> THEN <<"!">>
    ELSE <<"!">> \o Head(cells) \o rep(" ", w - Len(Head(cells)))
             \o table_row_line(Tail(cells), w)

table_lines(rows, w) ==
    << <<"[">> \o rep("=", w), table_row_line(table_cells(rows[1]), w),
       <<"+">> \o rep("-", w) >>
    \o [i \in 1..(Len(rows) - 2) |-> table_row_line(table_cells(rows[i + 2]), w)]
    \o << <<"]">> \o rep("=", w) >>

\* rows[1] is the header row, rows[2] the delimiter row, the rest the body
render_table(rows) == table_lines(rows, table_col_width(rows))

\* line i of ls is a header row and line i + 1 a delimiter row
starts_table(ls, i) ==
    /\ i < Len(ls)
    /\ table_candidate_text(ls[i]) # <<>>
    /\ table_candidate_text(ls[i + 1]) # <<>>
    /\ is_table_header_line(table_candidate_text(ls[i])[1])
    /\ is_table_delimiter_line(table_candidate_text(ls[i + 1])[1])

\* out with the open table, if any, rendered at its end
flush_table(out, rows) == IF rows = <<>> THEN out ELSE out \o render_table(rows)

\* out with the one empty line that stands for a run of blank lines
with_gap(out, gap) == IF gap /\ out # <<>> THEN out \o <<<<>>>> ELSE out

\* ls: the source lines without their newline; fence: Option<Fence> of the
\* open code fence; rows: the rows of the open table; gap: a blank line was
\* seen since the last block
RECURSIVE render_blocks(_, _, _, _, _, _, _)
render_blocks(ls, i, fence, rows, gap, out, width) ==
    IF i > Len(ls) THEN flush_table(out, rows)
    ELSE IF fence # None THEN
        IF is_close_fence(ls[i], fence[1])
          THEN render_blocks(ls, i + 1, None, <<>>, FALSE, out, width)
          ELSE render_blocks(ls, i + 1, fence, <<>>, FALSE, out \o <<ls[i]>>, width)
    ELSE IF trim(ls[i]) = <<>> THEN
        render_blocks(ls, i + 1, None, <<>>, TRUE, flush_table(out, rows), width)
    ELSE IF parse_open_fence(ls[i]) # None THEN
        render_blocks(ls, i + 1, parse_open_fence(ls[i]), <<>>, FALSE,
                      flush_table(with_gap(out, gap), rows), width)
    ELSE IF rows # <<>> THEN
        render_blocks(ls, i + 1, None, Append(rows, ls[i]), FALSE, out, width)
    ELSE IF starts_table(ls, i) THEN
        render_blocks(ls, i + 1, None, <<ls[i]>>, FALSE, with_gap(out, gap), width)
    ELSE
        render_blocks(ls, i + 1, None, <<>>, FALSE,
                      with_gap(out, gap) \o wrap_line(ls[i], width), width)

without_newlines(ls) == [i \in 1..Len(ls) |-> strip_suffix_or(ls[i], NL)]

append_markdown(markdown_source, width) ==
    render_blocks(without_newlines(split_inclusive(markdown_source)), 1, None,
                  <<>>, FALSE, <<>>, width)

\* markdown.rs
append_markdown_agent(markdown_source, width) ==
    append_markdown(unwrap_markdown_fences(markdown_source), width)

(***************************************************************************)
(* Bounds and inputs                                                       *)
(***************************************************************************)
\* most stream tokens joined into the delta of one push
MaxDelta == 2
\* largest max_lines passed to on_commit_tick_batch
MaxBatch == 2
\* number of set_width calls in one run
MaxResizes == 1

Widths == {None, Some(2), Some(4)}

LShort == <<"x", "y", NL>>
LHeader == <<"a", "|", "b", NL>>
LDelim == <<"-", "-", "-", "|", "-", "-", "-", NL>>
LRow == <<"c", "|", "d", "d", NL>>
LBlank == <<NL>>
LFence == <<BT, BT, BT, NL>>
LFenceInfo == <<BT, BT, BT, "r", NL>>
LFenceMd == <<BT, BT, BT, "m", "d", NL>>
LHeaderP == <<"|", "a", "|", "b", "|", NL>>
LDelimP == <<"|", "-", "-", "-", "|", "-", "-", "-", "|", NL>>

\* the messages of the upstream agent, each a sequence of tokens; one push
\* delivers one token or several joined
Messages ==
    { << <<"a", "b", "c">>, <<"d", "e", NL>>, LShort, <<"h">> >>,
      << LShort, LBlank, <<"a", "b", "c", "d", "e", NL>> >>,
      << LHeader, LDelim, LRow, LBlank, LShort >>,
      << LHeader, LShort, LHeader, LDelim >>,
      << LHeader, LBlank, LShort >> }

\* lines of the streams the detector is checked on
MaxLines == 3
DetectLines ==
    { LShort, LHeader, LDelim, LBlank, LFence, LFenceInfo, LFenceMd,
      <<">", " ", "a", "|", "b", NL>> }

\* messages with fenced code
FenceMessages ==
    { << LFence, LHeader, LDelim, LFence >>,
      << LFence, LFenceInfo, LFence, LHeader, LDelim >>,
      << LFenceMd, LHeaderP, LDelimP, LFence >> }

(***************************************************************************)
(* State                                                                   *)
(***************************************************************************)
VARIABLES
    pending,              \* tokens the upstream agent has not sent yet
    pushed,               \* text pushed to the controller for this message
    buffer,               \* state.collector: text not yet returned as committed
    has_seen_delta,       \* state.has_seen_delta
    queue,                \* state: the commit-animation queue of lines
    width,
    raw_source,
    rendered_lines,
    enqueued_stable_len,
    emitted_stable_len,
    header_emitted,
    top_padding_emitted,  \* PlanStreamController only
    transcript,           \* the lines handed to the transcript, in call order
    cells,                \* is_first_line of every cell handed over
    call,                 \* the last call and what it returned
    resizes,              \* set_width calls so far
    phase                 \* "streaming" until finalize returns

ctrl == <<width, raw_source, rendered_lines, enqueued_stable_len,
          emitted_stable_len, header_emitted, queue, buffer, has_seen_delta>>
vars == <<pending, pushed, buffer, has_seen_delta, queue, width, raw_source,
          rendered_lines, enqueued_stable_len, emitted_stable_len,
          header_emitted, transcript, cells, call, resizes, phase,
          top_padding_emitted>>

(***************************************************************************)
(* The collector and the animation queue (StreamState), by their contract  *)
(***************************************************************************)
RECURSIVE rfind(_, _, _)
rfind(s, ch, i) == IF i = 0 THEN 0 ELSE IF s[i] = ch THEN i ELSE rfind(s, ch, i - 1)

\* Option<String>: the newline-complete prefix not returned before
commit_complete_source(buf) ==
    LET e == rfind(buf, NL, Len(buf))
    IN  IF e = 0 THEN None ELSE Some(SubSeq(buf, 1, e))

\* what the collector keeps after commit_complete_source
after_commit(buf) == drop(buf, rfind(buf, NL, Len(buf)))

finalize_and_drain_source(buf) == buf

min(a, b) == IF a <= b THEN a ELSE b
max(a, b) == IF a >= b THEN a ELSE b

\* StreamState::drain_n: the first n queued lines; step() is drain_n(1)
\* mutant: nothing is taken off the queue
drain_n_nothing(q, n) == <<>>

drain_n(q, n) == SubSeq(q, 1, min(n, Len(q)))
step(q) == drain_n(q, 1)

(***************************************************************************)
(* controller.rs: StreamController                                         *)
(***************************************************************************)
\* mutant: a confirmed table withholds nothing once a blank line ends it
active_tail_budget_lines_until_blank(source, rendered) ==
    IF /\ table_holdback_state(source) # "None"
       /\ ~(Len(source) >= 2 /\ source[Len(source)] = NL
                             /\ source[Len(source) - 1] = NL)
      THEN Len(rendered) ELSE 0

\* mutant: a pending header withholds nothing
active_tail_budget_lines_no_pending(source, rendered) ==
    IF table_holdback_state(source) = "Confirmed" THEN Len(rendered) ELSE 0

\* the match of active_tail_budget_lines on the holdback state
\* mutant: the whole render is withheld whatever the holdback state
tail_budget_always(state, rendered) == Len(rendered)

\* mutant: a table withholds only the last rendered line
tail_budget_last_line(state, rendered) ==
    IF state = "None" THEN 0 ELSE min(1, Len(rendered))

tail_budget(state, rendered) ==
    CASE state = "Confirmed" -> Len(rendered)
      [] state = "PendingHeader" -> Len(rendered)
      [] OTHER -> 0

active_tail_budget_lines(source, rendered) ==
    tail_budget(table_holdback_state(source), rendered)

\* mutant: the target is not clamped to emitted_stable_len
target_stable_len_unclamped(source, rendered, emitted) ==
    max(Len(rendered) - active_tail_budget_lines(source, rendered), 0)

\* saturating_sub(tail_budget).max(emitted_stable_len)
target_stable_len(source, rendered, emitted) ==
    max(max(Len(rendered) - active_tail_budget_lines(source, rendered), 0),
        emitted)

\* rendered_lines[from..to]
lines_between(rendered, from, to) ==
    IF from < to THEN SubSeq(rendered, from + 1, to) ELSE <<>>

\* mutant: the rebuild branch of sync_stable_queue keeps the queued lines
sync_to_target_keep_queue(target, rendered, emitted, enqueued, q) ==
    IF target < enqueued THEN
        [queue |-> q, enqueued_stable_len |-> target, enqueued |-> Len(q) > 0]
    ELSE IF target = enqueued THEN
        [queue |-> q, enqueued_stable_len |-> enqueued, enqueued |-> FALSE]
    ELSE
        [queue |-> q \o SubSeq(rendered, enqueued + 1, target),
         enqueued_stable_len |-> target, enqueued |-> TRUE]

\* mutant: the rebuild branch of sync_stable_queue always reports true
sync_to_target_rebuild_true(target, rendered, emitted, enqueued, q) ==
    IF target < enqueued THEN
        [queue |-> lines_between(rendered, emitted, target),
         enqueued_stable_len |-> target,
         enqueued |-> TRUE]
    ELSE IF target = enqueued THEN
        [queue |-> q, enqueued_stable_len |-> enqueued, enqueued |-> FALSE]
    ELSE
        [queue |-> q \o SubSeq(rendered, enqueued + 1, target),
         enqueued_stable_len |-> target, enqueued |-> TRUE]

\* sync_stable_queue once target_stable_len is known: the queue, the
\* boundary and the return value
sync_to_target(target, rendered, emitted, enqueued, q) ==
    IF target < enqueued THEN
        [queue |-> lines_between(rendered, emitted, target),
         enqueued_stable_len |-> target,
         enqueued |-> Len(lines_between(rendered, emitted, target)) > 0]
    ELSE IF target = enqueued THEN
        [queue |-> q, enqueued_stable_len |-> enqueued, enqueued |-> FALSE]
    ELSE
        [queue |-> q \o SubSeq(rendered, enqueued + 1, target),
         enqueued_stable_len |-> target, enqueued |-> TRUE]

sync_stable_queue(source, rendered, emitted, enqueued, q) ==
    sync_to_target(target_stable_len(source, rendered, emitted), rendered,
                   emitted, enqueued, q)

\* mutant: the queue is rebuilt from the first rendered line
rebuild_to_target_from_zero(target, rendered, emitted) ==
    [queue |-> lines_between(rendered, 0, target),
     enqueued_stable_len |-> target]

rebuild_to_target(target, rendered, emitted) ==
    [queue |-> lines_between(rendered, emitted, target),
     enqueued_stable_len |-> target]

rebuild_stable_queue_from_render(source, rendered, emitted) ==
    rebuild_to_target(target_stable_len(source, rendered, emitted), rendered,
                      emitted)

\* the offset just after the k-th byte of rest, counted in the whole source
newline_offset(from, k) == IF k = 0 THEN 0 ELSE from - 1 + k

\* the next newline of source at or after byte `from`, 0 when there is none
next_newline(source, from) ==
    IF from > Len(source) THEN 0
    ELSE newline_offset(from, find_from(drop(source, from - 1), NL, 1))

RECURSIVE remap_loop(_, _, _, _, _)

\* mutant: a prefix that renders exactly target_count lines is not taken
remap_step_strict(source, w, target_count, i, n, best_offset) ==
    IF n >= target_count THEN (IF n < target_count THEN i ELSE best_offset)
    ELSE remap_loop(source, w, target_count, i + 1, i)

\* mutant: the loop goes on after the count has reached target_count
remap_step_no_break(source, w, target_count, i, n, best_offset) ==
    remap_loop(source, w, target_count, i + 1,
               IF n <= target_count THEN i ELSE best_offset)

\* one iteration of the for loop of source_bytes_for_rendered_count: the
\* prefix source[..i] renders n lines
\* mutant: the offset recorded is the newline's own index, not the one after
remap_step_before_newline(source, w, target_count, i, n, best_offset) ==
    IF n >= target_count
      THEN (IF n <= target_count THEN i - 1 ELSE best_offset)
    ELSE remap_loop(source, w, target_count, i + 1,
                    IF n <= target_count THEN i - 1 ELSE best_offset)

remap_step(source, w, target_count, i, n, best_offset) ==
    IF n >= target_count THEN (IF n <= target_count THEN i ELSE best_offset)
    ELSE remap_loop(source, w, target_count, i + 1,
                    IF n <= target_count THEN i ELSE best_offset)

\* the loop from the newline at offset i on, 0 when no newline is left
remap_from(source, w, target_count, i, best_offset) ==
    IF i = 0 THEN best_offset
    ELSE remap_step(source, w, target_count, i,
                    Len(append_markdown_agent(SubSeq(source, 1, i), w)),
                    best_offset)

\* the for loop of source_bytes_for_rendered_count, from byte `from` on
remap_loop(source, w, target_count, from, best_offset) ==
    remap_from(source, w, target_count, next_newline(source, from), best_offset)

source_bytes_for_rendered_count(source, w, target_count) ==
    IF target_count = 0 THEN 0 ELSE remap_loop(source, w, target_count, 1, 0)

\* the cell emit() returns: Option<AgentMessageCell{lines, is_first_line}>
emit_cell(lines, header) ==
    IF lines = <<>> THEN None
    ELSE Some([lines |-> lines, is_first_line |-> ~header])

\* mutant: emit never records that the header went out
emit_header_never(lines, header) == header

emit_header(lines, header) == IF lines = <<>> THEN header ELSE TRUE

NoCall ==
    [op |-> "new", max_lines |-> None, ret |-> FALSE, cell |-> None,
     source |-> None]

\* the transcript after it received the cell (if any)
transcript_lines(t, cell) == IF cell = None THEN t ELSE t \o cell[1].lines
transcript_cells(c, cell) ==
    IF cell = None THEN c ELSE Append(c, cell[1].is_first_line)

InitWith(messages, widths) ==
    /\ pending \in messages
    /\ pushed = <<>>
    /\ buffer = <<>>
    /\ has_seen_delta = FALSE
    /\ queue = <<>>
    /\ width \in widths
    /\ raw_source = <<>>
    /\ rendered_lines = <<>>
    /\ enqueued_stable_len = 0
    /\ emitted_stable_len = 0
    /\ header_emitted = FALSE
    /\ top_padding_emitted = FALSE
    /\ transcript = <<>>
    /\ cells = <<>>
    /\ call = NoCall
    /\ resizes = 0
    /\ phase = "streaming"

\* the end of push once sync_stable_queue has run
PushSynced(r) ==
    /\ queue' = r.queue
    /\ enqueued_stable_len' = r.enqueued_stable_len
    /\ call' = [NoCall EXCEPT !.op = "push", !.ret = r.enqueued]

\* push when the collector returned committed_source
PushCommitted(committed_source) ==
    /\ raw_source' = raw_source \o committed_source
    /\ rendered_lines' = append_markdown_agent(raw_source', width)
    /\ PushSynced(sync_stable_queue(raw_source', rendered_lines',
                                    emitted_stable_len, enqueued_stable_len,
                                    queue))

\* mutant: push commits whatever the collector holds, newline or not
PushDelta_commits_partial(delta) ==
    /\ pushed' = pushed \o delta
    /\ has_seen_delta' = (has_seen_delta \/ delta # <<>>)
    /\ buffer' = <<>>
    /\ PushCommitted(buffer \o delta)

PushDelta(delta) ==
    /\ pushed' = pushed \o delta
    /\ has_seen_delta' = (has_seen_delta \/ delta # <<>>)
    /\ IF /\ find_from(delta, NL, 1) # 0
          /\ commit_complete_source(buffer \o delta) # None
         THEN /\ buffer' = after_commit(buffer \o delta)
              /\ PushCommitted(commit_complete_source(buffer \o delta)[1])
         ELSE /\ buffer' = buffer \o delta
              /\ call' = [NoCall EXCEPT !.op = "push"]
              /\ UNCHANGED <<raw_source, rendered_lines, queue,
                             enqueued_stable_len>>

\* push(delta), delta the next n tokens of the stream
Push(n) ==
    /\ phase = "streaming"
    /\ n <= Len(pending)
    /\ pending' = drop(pending, n)
    /\ PushDelta(concat(SubSeq(pending, 1, n)))
    /\ UNCHANGED <<width, emitted_stable_len, header_emitted,
                   top_padding_emitted, transcript, cells, resizes, phase>>

\* mutant: the boundary advances by one on every tick
emitted_after_drain_by_one(emitted, lines) == emitted + 1

\* mutant: the boundary is set to the size of the step instead of advanced
emitted_after_drain_assign(emitted, lines) == Len(lines)

\* self.emitted_stable_len += step.len()
emitted_after_drain(emitted, lines) == emitted + Len(lines)

\* the shared body of on_commit_tick and on_commit_tick_batch
Drain(op, max_lines, lines) ==
    /\ queue' = drop(queue, Len(lines))
    /\ emitted_stable_len' = emitted_after_drain(emitted_stable_len, lines)
    /\ header_emitted' = emit_header(lines, header_emitted)
    /\ transcript' = transcript_lines(transcript, emit_cell(lines, header_emitted))
    /\ cells' = transcript_cells(cells, emit_cell(lines, header_emitted))
    /\ call' = [NoCall EXCEPT !.op = op,
                              !.max_lines = max_lines,
                              !.ret = (drop(queue, Len(lines)) = <<>>),
                              !.cell = emit_cell(lines, header_emitted)]
    /\ UNCHANGED <<pending, pushed, buffer, has_seen_delta, width, raw_source,
                   rendered_lines, enqueued_stable_len, top_padding_emitted,
                   resizes, phase>>

OnCommitTick ==
    /\ phase = "streaming"
    /\ Drain("on_commit_tick", None, step(queue))

\* mutant: max_lines is used as it is, without max(1)
OnCommitTickBatch_unclamped(max_lines) ==
    /\ phase = "streaming"
    /\ Drain("on_commit_tick_batch", Some(max_lines), drain_n(queue, max_lines))

OnCommitTickBatch(max_lines) ==
    /\ phase = "streaming"
    /\ Drain("on_commit_tick_batch", Some(max_lines),
             drain_n(queue, max(max_lines, 1)))

\* mutant: set_width never takes its early return
width_unchanged_never(current, w) == FALSE

\* the early-return test of set_width
width_unchanged(current, w) == current = w

\* emitted_stable_len recalculated for the new width
remap_emitted(source, old_width, w, emitted) ==
    IF emitted > 0
      THEN Len(append_markdown_agent(
                 SubSeq(source, 1,
                        source_bytes_for_rendered_count(source, old_width, emitted)),
                 w))
      ELSE emitted

\* the end of set_width once rebuild_stable_queue_from_render has run
Rebuilt(r) ==
    /\ queue' = r.queue
    /\ enqueued_stable_len' = r.enqueued_stable_len

\* mutant: a width change starts the collector afresh
SetWidth_resets_collector(w) ==
    /\ phase = "streaming"
    /\ resizes < MaxResizes
    /\ resizes' = resizes + 1
    /\ call' = [NoCall EXCEPT !.op = "set_width"]
    /\ buffer' = IF width_unchanged(width, w) THEN buffer ELSE <<>>
    /\ IF width_unchanged(width, w) THEN
         UNCHANGED <<width, emitted_stable_len, rendered_lines, queue,
                     enqueued_stable_len>>
       ELSE IF raw_source = <<>> THEN
         /\ width' = w
         /\ UNCHANGED <<emitted_stable_len, rendered_lines, queue,
                        enqueued_stable_len>>
       ELSE
         /\ width' = w
         /\ emitted_stable_len' =
                remap_emitted(raw_source, width, w, emitted_stable_len)
         /\ rendered_lines' = append_markdown_agent(raw_source, w)
         /\ Rebuilt(rebuild_stable_queue_from_render(
                        raw_source, rendered_lines', emitted_stable_len'))
    /\ UNCHANGED <<pending, pushed, has_seen_delta, raw_source,
                   header_emitted, top_padding_emitted, transcript, cells,
                   phase>>

SetWidth(w) ==
    /\ phase = "streaming"
    /\ resizes < MaxResizes
    /\ resizes' = resizes + 1
    /\ call' = [NoCall EXCEPT !.op = "set_width"]
    /\ IF width_unchanged(width, w) THEN
         UNCHANGED <<width, emitted_stable_len, rendered_lines, queue,
                     enqueued_stable_len>>
       ELSE IF raw_source = <<>> THEN
         /\ width' = w
         /\ UNCHANGED <<emitted_stable_len, rendered_lines, queue,
                        enqueued_stable_len>>
       ELSE
         /\ width' = w
         /\ emitted_stable_len' =
                remap_emitted(raw_source, width, w, emitted_stable_len)
         /\ rendered_lines' = append_markdown_agent(raw_source, w)
         /\ Rebuilt(rebuild_stable_queue_from_render(
                        raw_source, rendered_lines', emitted_stable_len'))
    /\ UNCHANGED <<pending, pushed, buffer, has_seen_delta, raw_source,
                   header_emitted, top_padding_emitted, transcript, cells,
                   phase>>

\* mutant: finalize emits the whole render again
finalize_out_lines_all(source, w, emitted) == append_markdown_agent(source, w)

\* rendered[emitted..], empty when emitted is at or past the end
lines_from(rendered, emitted) ==
    IF emitted >= Len(rendered) THEN <<>> ELSE drop(rendered, emitted)

\* the lines finalize emits: rendered[emitted_stable_len..] of a fresh render
finalize_out_lines(source, w, emitted) ==
    lines_from(append_markdown_agent(source, w), emitted)

\* the end of finalize: emit(out_lines) and the values returned
Finalized(source, cell, header) ==
    /\ call' = [NoCall EXCEPT !.op = "finalize", !.cell = cell,
                              !.source = Some(source)]
    /\ header_emitted' = header
    /\ transcript' = transcript_lines(transcript, cell)
    /\ cells' = transcript_cells(cells, cell)

FinalizeLines(source, out_lines) ==
    Finalized(source, emit_cell(out_lines, header_emitted),
              emit_header(out_lines, header_emitted))

\* mutant: finalize has no early return for an empty raw_source
FinalizeSource_always_emits(source) ==
    FinalizeLines(source, finalize_out_lines(source, width, emitted_stable_len))

FinalizeSource(source) ==
    IF source = <<>> THEN
        /\ call' = [NoCall EXCEPT !.op = "finalize"]
        /\ UNCHANGED <<header_emitted, transcript, cells>>
    ELSE
        FinalizeLines(source,
                      finalize_out_lines(source, width, emitted_stable_len))

\* reset_stream_state, which leaves header_emitted as it is
Finalize ==
    /\ phase = "streaming"
    /\ FinalizeSource(raw_source \o finalize_and_drain_source(buffer))
    /\ buffer' = <<>>
    /\ has_seen_delta' = FALSE
    /\ queue' = <<>>
    /\ raw_source' = <<>>
    /\ rendered_lines' = <<>>
    /\ enqueued_stable_len' = 0
    /\ emitted_stable_len' = 0
    /\ phase' = "finalized"
    /\ UNCHANGED <<pending, pushed, width, resizes, top_padding_emitted>>

Next ==
    \/ \E n \in 1..MaxDelta : Push(n)
    \/ OnCommitTick
    \/ \E max_lines \in {0, MaxBatch} : OnCommitTickBatch(max_lines)
    \/ \E w \in Widths : SetWidth(w)
    \/ Finalize

Init == InitWith(Messages, Widths)

Spec == Init /\ [][Next]_vars

InitFence == InitWith(FenceMessages, Widths)

SpecFence == InitFence /\ [][Next]_vars

\* the commit tick of the caller's animation loop
CommitTick ==
    \/ OnCommitTick
    \/ \E max_lines \in {0, MaxBatch} : OnCommitTickBatch(max_lines)

\* the controller under a caller that keeps ticking while it streams
SpecDrain == Init /\ [][Next]_vars /\ WF_vars(CommitTick)

\* the holdback detector on every stream of MaxLines lines
InitDetect == InitWith([1..MaxLines -> DetectLines], {None})

NextDetect ==
    \/ \E n \in 1..MaxDelta : Push(n)
    \/ Finalize

SpecDetect == InitDetect /\ [][NextDetect]_vars

\* lines given to the table_detect helpers: single cells, outer pipes, empty
\* segments, short and malformed delimiter segments, blockquoted table lines,
\* a blockquote marker alone
TableLines ==
    { LShort, LHeader, LDelim, LBlank, LHeaderP, LDelimP,
      <<" ", " ", NL>>,
      <<"|", " ", "o", " ", "|", NL>>,
      <<"|", NL>>,
      <<"|", "|", "|", NL>>,
      <<" ", "a", " ", "|", " ", "b", " ", NL>>,
      <<"-", "-", "|", "-", "-", NL>>,
      <<":", "-", "-", "|", "-", "-", "-", NL>>,
      <<":", "-", "-", "-", ":", "|", "-", "-", "-", ":", NL>>,
      <<"-", "-", "-", "|", "|", "-", "-", "-", NL>>,
      <<"-", "-", "-", "|", "-", "x", "-", NL>>,
      <<"-", "-", "-", "|", NL>>,
      <<">", NL>>,
      <<">", " ", "a", "|", "b", NL>>,
      <<">", " ", "-", "-", "-", "|", "-", "-", "-", NL>> }

\* the table_detect helpers on every stream of two lines of TableLines
InitTable == InitWith({<<a, b>> : a \in TableLines, b \in TableLines}, {None})

SpecTable == InitTable /\ [][NextDetect]_vars

\* mutant: the test looks at the header flag only
tail_starts_stream_header_only == ~header_emitted

\* StreamController::tail_starts_stream
tail_starts_stream == ~header_emitted /\ enqueued_stable_len = 0

(***************************************************************************)
(* PlanStreamController                                                    *)
(***************************************************************************)
\* the banner line of a proposed plan, its bullet written as *
PlanHeaderLine ==
    <<"*", " ", "P", "r", "o", "p", "o", "s", "e", "d", " ", "P", "l", "a", "n">>

\* Line::from(" ")
PaddingLine == <<" ">>

\* prefix_lines(lines, "  ", "  ")
prefix_lines(lines) == [i \in 1..Len(lines) |-> <<" ", " ">> \o lines[i]]

\* the lines of the cell PlanStreamController::emit builds
plan_out_lines(lines, include_bottom_padding, header, top_padding) ==
    (IF ~header THEN <<PlanHeaderLine, PaddingLine>> ELSE <<>>)
    \o prefix_lines((IF ~top_padding THEN <<PaddingLine>> ELSE <<>>)
                    \o lines
                    \o (IF include_bottom_padding THEN <<PaddingLine>> ELSE <<>>))

\* PlanStreamController::emit: the cell returned
plan_emit_cell(lines, include_bottom_padding, header, top_padding) ==
    IF lines = <<>> /\ ~include_bottom_padding THEN None
    ELSE Some([lines |-> plan_out_lines(lines, include_bottom_padding, header,
                                        top_padding),
               is_stream_continuation |-> header])

\* mutant: emit never records that the header and the padding went out
plan_emit_flag_never(lines, include_bottom_padding, flag) == flag

\* PlanStreamController::emit: header_emitted and top_padding_emitted after it
plan_emit_flag(lines, include_bottom_padding, flag) ==
    IF lines = <<>> /\ ~include_bottom_padding THEN flag ELSE TRUE

plan_transcript_cells(c, cell) ==
    IF cell = None THEN c ELSE Append(c, ~cell[1].is_stream_continuation)

\* mutant: a pending header does not withhold plan lines
plan_tail_budget_no_pending(state, rendered) ==
    CASE state = "Confirmed" -> Len(rendered)
      [] OTHER -> 0

plan_tail_budget(state, rendered) ==
    CASE state = "Confirmed" -> Len(rendered)
      [] state = "PendingHeader" -> Len(rendered)
      [] OTHER -> 0

plan_active_tail_budget_lines(source, rendered) ==
    plan_tail_budget(table_holdback_state(source), rendered)

plan_target_stable_len(source, rendered, emitted) ==
    max(max(Len(rendered) - plan_active_tail_budget_lines(source, rendered), 0),
        emitted)

plan_sync_to_target(target, rendered, emitted, enqueued, q) ==
    IF target < enqueued THEN
        [queue |-> IF emitted < target
                     THEN SubSeq(rendered, emitted + 1, target) ELSE <<>>,
         enqueued_stable_len |-> target,
         enqueued |-> emitted < target]
    ELSE IF target = enqueued THEN
        [queue |-> q, enqueued_stable_len |-> enqueued, enqueued |-> FALSE]
    ELSE
        [queue |-> q \o SubSeq(rendered, enqueued + 1, target),
         enqueued_stable_len |-> target, enqueued |-> TRUE]

plan_sync_stable_queue(source, rendered, emitted, enqueued, q) ==
    plan_sync_to_target(plan_target_stable_len(source, rendered, emitted),
                        rendered, emitted, enqueued, q)

plan_rebuild_to_target(target, rendered, emitted) ==
    [queue |-> IF emitted < target
                 THEN SubSeq(rendered, emitted + 1, target) ELSE <<>>,
     enqueued_stable_len |-> target]

plan_rebuild_stable_queue_from_render(source, rendered, emitted) ==
    plan_rebuild_to_target(plan_target_stable_len(source, rendered, emitted),
                           rendered, emitted)

PlanPushSynced(r) ==
    /\ queue' = r.queue
    /\ enqueued_stable_len' = r.enqueued_stable_len
    /\ call' = [NoCall EXCEPT !.op = "push", !.ret = r.enqueued]

PlanPushCommitted(committed_source) ==
    /\ raw_source' = raw_source \o committed_source
    /\ rendered_lines' = append_markdown_agent(raw_source', width)
    /\ PlanPushSynced(plan_sync_stable_queue(raw_source', rendered_lines',
                                             emitted_stable_len,
                                             enqueued_stable_len, queue))

PlanPushDelta(delta) ==
    /\ pushed' = pushed \o delta
    /\ has_seen_delta' = (has_seen_delta \/ delta # <<>>)
    /\ IF /\ find_from(delta, NL, 1) # 0
          /\ commit_complete_source(buffer \o delta) # None
         THEN /\ buffer' = after_commit(buffer \o delta)
              /\ PlanPushCommitted(commit_complete_source(buffer \o delta)[1])
         ELSE /\ buffer' = buffer \o delta
              /\ call' = [NoCall EXCEPT !.op = "push"]
              /\ UNCHANGED <<raw_source, rendered_lines, queue,
                             enqueued_stable_len>>

\* PlanStreamController::push(delta), delta the next n tokens of the stream
PlanPush(n) ==
    /\ phase = "streaming"
    /\ n <= Len(pending)
    /\ pending' = drop(pending, n)
    /\ PlanPushDelta(concat(SubSeq(pending, 1, n)))
    /\ UNCHANGED <<width, emitted_stable_len, header_emitted,
                   top_padding_emitted, transcript, cells, resizes, phase>>

\* the end of a plan tick or finalize: emit(lines, include_bottom_padding)
PlanEmitted(op, max_lines, idle, cell) ==
    /\ transcript' = transcript_lines(transcript, cell)
    /\ cells' = plan_transcript_cells(cells, cell)
    /\ call' = [NoCall EXCEPT !.op = op, !.max_lines = max_lines,
                              !.ret = idle, !.cell = cell]

\* the shared body of the plan's on_commit_tick and on_commit_tick_batch
PlanDrain(op, max_lines, lines) ==
    /\ queue' = drop(queue, Len(lines))
    /\ emitted_stable_len' = emitted_stable_len + Len(lines)
    /\ header_emitted' = plan_emit_flag(lines, FALSE, header_emitted)
    /\ top_padding_emitted' = plan_emit_flag(lines, FALSE, top_padding_emitted)
    /\ PlanEmitted(op, max_lines, drop(queue, Len(lines)) = <<>>,
                   plan_emit_cell(lines, FALSE, header_emitted,
                                  top_padding_emitted))
    /\ UNCHANGED <<pending, pushed, buffer, has_seen_delta, width, raw_source,
                   rendered_lines, enqueued_stable_len, resizes, phase>>

PlanOnCommitTick ==
    /\ phase = "streaming"
    /\ PlanDrain("on_commit_tick", None, step(queue))

PlanOnCommitTickBatch(max_lines) ==
    /\ phase = "streaming"
    /\ PlanDrain("on_commit_tick_batch", Some(max_lines),
                 drain_n(queue, max(max_lines, 1)))

\* emitted_stable_len recalculated for the new width
plan_remap_emitted(source, old_width, w, emitted) ==
    IF emitted > 0
      THEN Len(append_markdown_agent(
                 SubSeq(source, 1,
                        source_bytes_for_rendered_count(source, old_width, emitted)),
                 w))
      ELSE emitted

PlanRebuilt(r) ==
    /\ queue' = r.queue
    /\ enqueued_stable_len' = r.enqueued_stable_len

PlanSetWidth(w) ==
    /\ phase = "streaming"
    /\ resizes < MaxResizes
    /\ resizes' = resizes + 1
    /\ call' = [NoCall EXCEPT !.op = "set_width"]
    /\ IF width = w THEN
         UNCHANGED <<width, emitted_stable_len, rendered_lines, queue,
                     enqueued_stable_len>>
       ELSE IF raw_source = <<>> THEN
         /\ width' = w
         /\ UNCHANGED <<emitted_stable_len, rendered_lines, queue,
                        enqueued_stable_len>>
       ELSE
         /\ width' = w
         /\ emitted_stable_len' =
                plan_remap_emitted(raw_source, width, w, emitted_stable_len)
         /\ rendered_lines' = append_markdown_agent(raw_source, w)
         /\ PlanRebuilt(plan_rebuild_stable_queue_from_render(
                            raw_source, rendered_lines', emitted_stable_len'))
    /\ UNCHANGED <<pending, pushed, buffer, has_seen_delta, raw_source,
                   header_emitted, top_padding_emitted, transcript, cells,
                   phase>>

\* PlanStreamController::finalize: emit(out_lines, true), then
\* reset_plan_stream_state, which leaves both one-shot flags as they are
\* mutant: an empty stream returns no cell, as StreamController::finalize does
PlanFinalizeSource_empty_returns_none(source) ==
    IF source = <<>> THEN PlanEmitted("finalize", None, FALSE, None)
    ELSE PlanEmitted("finalize", None, FALSE,
                     plan_emit_cell(finalize_out_lines(source, width,
                                                       emitted_stable_len),
                                    TRUE, header_emitted, top_padding_emitted))

PlanFinalizeSource(source) ==
    PlanEmitted("finalize", None, FALSE,
                plan_emit_cell(finalize_out_lines(source, width,
                                                  emitted_stable_len),
                               TRUE, header_emitted, top_padding_emitted))

PlanFinalize ==
    /\ phase = "streaming"
    /\ PlanFinalizeSource(raw_source \o finalize_and_drain_source(buffer))
    /\ header_emitted' = plan_emit_flag(<<>>, TRUE, header_emitted)
    /\ top_padding_emitted' = plan_emit_flag(<<>>, TRUE, top_padding_emitted)
    /\ buffer' = <<>>
    /\ has_seen_delta' = FALSE
    /\ queue' = <<>>
    /\ raw_source' = <<>>
    /\ rendered_lines' = <<>>
    /\ enqueued_stable_len' = 0
    /\ emitted_stable_len' = 0
    /\ phase' = "finalized"
    /\ UNCHANGED <<pending, pushed, width, resizes>>

NextPlan ==
    \/ \E n \in 1..MaxDelta : PlanPush(n)
    \/ PlanOnCommitTick
    \/ \E max_lines \in {0, MaxBatch} : PlanOnCommitTickBatch(max_lines)
    \/ \E w \in Widths : PlanSetWidth(w)
    \/ PlanFinalize

InitPlan == InitWith(Messages, Widths)

SpecPlan == InitPlan /\ [][NextPlan]_vars

(***************************************************************************)
(* Claims                                                                  *)
(***************************************************************************)
NoResize == resizes = 0

\* C1: without set_width, the lines emitted by the ticks followed by the
\* lines of the cell finalize returns are exactly the full render of all
\* pushed text at the controller's width.
C1_NoLossNoDuplication ==
    (phase = "finalized" /\ NoResize) =>
        transcript = append_markdown_agent(pushed, width)

C1_Witness ==
    /\ phase = "finalized" /\ NoResize
    /\ Len(cells) >= 2
    /\ call.cell # None

\* C2: in every reachable state
\* 0 <= emitted_stable_len <= enqueued_stable_len <= |rendered_lines|.
C2_BoundaryInvariant ==
    /\ 0 <= emitted_stable_len
    /\ emitted_stable_len <= enqueued_stable_len
    /\ enqueued_stable_len <= Len(rendered_lines)

C2_Witness ==
    /\ call.op = "set_width"
    /\ 0 < emitted_stable_len
    /\ emitted_stable_len < enqueued_stable_len

\* C3 as stated: before finalize emitted_stable_len never decreases from one
\* state to the next, whatever the call (push, tick, batch tick or set_width).
C3_EmittedNeverDecreases ==
    [][phase' = "streaming" => emitted_stable_len' >= emitted_stable_len]_vars

\* C3 amended: push, on_commit_tick and on_commit_tick_batch never decrease
\* emitted_stable_len (set_width remaps it to the new layout and may lower it).
C3_EmittedMonotoneWithoutResize ==
    [][(phase' = "streaming" /\ call'.op # "set_width")
         => emitted_stable_len' >= emitted_stable_len]_vars

C3_Witness ==
    /\ call.op = "push"
    /\ emitted_stable_len > 0
    /\ enqueued_stable_len = emitted_stable_len
    /\ Len(rendered_lines) > emitted_stable_len

\* C4: a push that leaves the holdback state PendingHeader or Confirmed
\* queues nothing new: the queue is not longer than before and the stable
\* boundary has not advanced.
C4_NoPrematureCommit ==
    [][(call'.op = "push" /\ table_holdback_state(raw_source') # "None")
         => /\ Len(queue') <= Len(queue)
            /\ enqueued_stable_len' <= enqueued_stable_len]_vars

C4_Witness ==
    /\ call.op = "push"
    /\ table_holdback_state(raw_source) = "PendingHeader"
    /\ Len(rendered_lines) > enqueued_stable_len
    /\ queue = <<>>

IsPrefix(p, t) == Len(p) <= Len(t) /\ SubSeq(t, 1, Len(p)) = p

TableStream == LHeader \o LDelim \o LRow \o LBlank

\* C5 as stated: once the blank line after the table rows is pushed the
\* withholding ends and the table lines are queued for draining.
C5_BlankLineEndsWithholding ==
    (phase = "streaming" /\ pushed = TableStream)
        => (queue # <<>> /\ enqueued_stable_len = Len(rendered_lines))

\* C5 amended: the table lines are withheld (nothing queued, nothing
\* emitted) while the table is in progress and also after the blank line;
\* they reach the transcript through finalize, and what was emitted equals
\* the full render of the pushed source at the same width.
C5_TableWithheldUntilFinalize ==
    IsPrefix(LHeader \o LDelim, pushed) =>
        /\ phase = "streaming" =>
              (queue = <<>> /\ emitted_stable_len = 0 /\ transcript = <<>>)
        /\ (phase = "finalized" /\ NoResize) =>
              (transcript = append_markdown_agent(pushed, width)
               /\ Len(cells) = 1)

C5_Witness ==
    /\ phase = "finalized"
    /\ IsPrefix(TableStream, pushed)
    /\ Len(transcript) >= 5

NewlineEnds(source) == {i \in 1..Len(source) : source[i] = NL}

\* rendered line count of the first i bytes of raw_source at width w
PrefixCount(i, w) == Len(append_markdown_agent(SubSeq(raw_source, 1, i), w))

InsideOtherFence(source) ==
    LET lines == parse_lines_with_fence_state(source)
    IN  {i \in 1..Len(lines) :
            /\ table_candidate_text(lines[i].text) # None
            /\ lines[i].fence_context = "Other"}

PipeLines(source) ==
    LET ls == split(source, NL)
    IN  {i \in 1..Len(ls) : table_candidate_text(ls[i]) # None}

IsResize == call'.op = "set_width" /\ width' # width /\ raw_source # <<>>

\* C7: a resize with emitted_stable_len at the line count of a
\* newline-terminated prefix remaps it to the line count of that prefix at
\* the new width and queues no emitted line again; when every rendered line
\* was emitted, nothing is queued after the resize.
C7_ResizeAtNewlineBoundary ==
    [][IsResize =>
         /\ \A i \in NewlineEnds(raw_source) :
               (emitted_stable_len > 0 /\ PrefixCount(i, width) = emitted_stable_len)
                  => /\ emitted_stable_len' = PrefixCount(i, width')
                     /\ queue' = SubSeq(rendered_lines', PrefixCount(i, width') + 1,
                                        enqueued_stable_len')
         /\ (emitted_stable_len = Len(rendered_lines) => queue' = <<>>)]_vars

C7_Witness ==
    /\ call.op = "set_width"
    /\ emitted_stable_len = Len(rendered_lines)
    /\ queue = <<>>
    /\ Len(transcript) > 0
    /\ Len(transcript) # emitted_stable_len

RECURSIVE flat(_)
flat(lines) == IF lines = <<>> THEN <<>> ELSE Head(lines) \o flat(Tail(lines))

\* C8: a resize counts as emitted only source that was emitted before it:
\* a newline-terminated prefix that was not fully emitted at the old width
\* is not fully emitted at the new one, and the lines counted as emitted
\* in the new layout hold only text of the lines emitted in the old one.
C8_ResizeNeverDropsContent ==
    [][IsResize =>
         /\ \A i \in NewlineEnds(raw_source) :
               PrefixCount(i, width) > emitted_stable_len
                  => PrefixCount(i, width') > emitted_stable_len'
         /\ IsPrefix(flat(SubSeq(rendered_lines', 1, emitted_stable_len')),
                     flat(SubSeq(rendered_lines, 1, emitted_stable_len)))]_vars

C8_Witness ==
    /\ call.op = "set_width"
    /\ transcript # <<>>
    /\ queue # <<>>
    /\ flat(SubSeq(rendered_lines, 1, emitted_stable_len)) # flat(transcript)

\* C9: set_width with the width the controller already has changes nothing.
C9_IdempotentResize ==
    [][(call'.op = "set_width" /\ width' = width) => UNCHANGED ctrl]_vars

C9_Witness ==
    /\ call.op = "set_width"
    /\ emitted_stable_len > 0
    /\ queue # <<>>
    /\ \A i \in NewlineEnds(raw_source) : PrefixCount(i, width) # emitted_stable_len

\* C10 as stated: finalize with a non-empty resulting raw_source returns one
\* cell with the rendered lines from emitted_stable_len on, and the source.
C10_FinalizeReturnsOneCell ==
    [][(call'.op = "finalize" /\ pushed # <<>>) =>
         /\ call'.source = Some(pushed)
         /\ call'.cell # None
         /\ call'.cell[1].lines =
               drop(append_markdown_agent(pushed, width), emitted_stable_len)]_vars

\* C10 amended: finalize with a non-empty resulting raw_source returns the
\* source (all pushed text, newline-terminated or not) and, when the full
\* render has lines beyond emitted_stable_len, one cell holding exactly
\* those lines; it returns no cell when no line remains.
C10_FinalizeFlushesTail ==
    [][(call'.op = "finalize" /\ pushed # <<>>) =>
         LET rest == drop(append_markdown_agent(pushed, width), emitted_stable_len)
         IN  /\ call'.source = Some(pushed)
             /\ rest = <<>> => call'.cell = None
             /\ rest # <<>> => (call'.cell # None /\ call'.cell[1].lines = rest)]_vars

C10_Witness ==
    /\ call.op = "finalize"
    /\ call.cell # None
    /\ pushed[Len(pushed)] # NL
    /\ Len(cells) >= 2

\* C11: finalize when no text was ever pushed returns (None, None) and leaves
\* raw_source and rendered_lines empty, both boundaries 0 and the queue empty.
C11_FinalizeOnEmptyStream ==
    [][(call'.op = "finalize" /\ pushed = <<>>) =>
         /\ call'.cell = None
         /\ call'.source = None
         /\ raw_source' = <<>> /\ rendered_lines' = <<>>
         /\ emitted_stable_len' = 0 /\ enqueued_stable_len' = 0
         /\ queue' = <<>> /\ buffer' = <<>>
         /\ transcript' = transcript]_vars

C11_Witness ==
    /\ call.op = "finalize"
    /\ pushed = <<>>
    /\ phase = "finalized"

\* C12: of the cells emitted for one message exactly the first is flagged as
\* the start of the message, and a tick or finalize that emits no cell leaves
\* header_emitted as it was.
C12_OneShotHeader ==
    [][/\ \A i \in 1..Len(cells') : cells'[i] = (i = 1)
       /\ (call'.op \in {"on_commit_tick", "on_commit_tick_batch", "finalize"}
           /\ call'.cell = None)
             => (header_emitted' = header_emitted /\ cells' = cells)]_vars

C12_Witness ==
    /\ call.op = "finalize"
    /\ call.cell # None
    /\ Len(cells) >= 3
    /\ cells[1]
    /\ ~call.cell[1].is_first_line

\* C13: after finalize returns every piece of per-message state has its
\* initial value, header_emitted included.
C13_LifecycleReset ==
    phase = "finalized" =>
        /\ raw_source = <<>> /\ rendered_lines = <<>>
        /\ emitted_stable_len = 0 /\ enqueued_stable_len = 0
        /\ queue = <<>> /\ buffer = <<>>
        /\ header_emitted = FALSE

\* the line is outside non-markdown fences and its table text is a header
\* candidate in the sense of table_detect::is_header_candidate
HeaderCandidate(line) ==
    LET t == table_candidate_text(line.text)
    IN  t # None /\ is_header_candidate(t[1], line.fence_context # "Other")

\* the line is outside non-markdown fences and is a delimiter row
DelimiterRow(line) ==
    LET t == table_candidate_text(line.text)
    IN  /\ line.fence_context # "Other"
        /\ t # None /\ is_table_delimiter_line(t[1])

HeaderDelimiterPair(lines) ==
    \E i \in 1..(Len(lines) - 1) :
        HeaderCandidate(lines[i]) /\ DelimiterRow(lines[i + 1])

\* C14: the holdback state is Confirmed exactly when two consecutive lines
\* outside non-markdown fences are a header candidate (not itself a delimiter
\* row) followed by a delimiter row.
C14_ConfirmedVerdict ==
    (table_holdback_state(raw_source) = "Confirmed")
        <=> HeaderDelimiterPair(parse_lines_with_fence_state(raw_source))

\* C15: with no header and delimiter pair, the holdback state is
\* PendingHeader exactly when the last non-blank line is a header candidate
\* outside non-markdown fences, and None otherwise.
C15_PendingHeaderVerdict ==
    LET lines == parse_lines_with_fence_state(raw_source)
        i == last_nonblank(lines, Len(lines))
    IN  ~HeaderDelimiterPair(lines) =>
            table_holdback_state(raw_source) =
                IF i # 0 /\ HeaderCandidate(lines[i])
                  THEN "PendingHeader" ELSE "None"

\* the text a push appended to raw_source
Committed == drop(raw_source', Len(raw_source))

\* a push on a pending header that commits exactly one line, not a table
\* line, and confirms no table
PendingHeaderThenOther ==
    /\ call'.op = "push"
    /\ table_holdback_state(raw_source) = "PendingHeader"
    /\ Committed # <<>>
    /\ find_from(Committed, NL, 1) = Len(Committed)
    /\ table_candidate_text(SubSeq(Committed, 1, Len(Committed) - 1)) = None
    /\ table_holdback_state(raw_source') # "Confirmed"

\* the push enqueued every rendered line beyond emitted_stable_len
ReleasedAll ==
    /\ enqueued_stable_len' = Len(rendered_lines')
    /\ queue' = lines_between(rendered_lines', emitted_stable_len,
                              Len(rendered_lines'))
    /\ queue' # <<>>
    /\ call'.ret

TickEmits ==
    (call'.op = "on_commit_tick" /\ queue # <<>>)
        => (call'.cell # None /\ call'.cell[1].lines = <<Head(queue)>>)

\* C16 as stated: a push that commits, after a pending header, a line that is
\* neither a delimiter row nor a table line enqueues every rendered line
\* beyond emitted_stable_len, and the next on_commit_tick emits a cell.
C16_ReleasedByAnyOtherLine ==
    [][(PendingHeaderThenOther => ReleasedAll) /\ TickEmits]_vars

\* C16 amended: the same for a committed line that is not blank.
C16_PendingHeaderReleased ==
    [][((PendingHeaderThenOther /\ trim(Committed) # <<>>) => ReleasedAll)
       /\ TickEmits]_vars

C16_Witness ==
    /\ raw_source = LHeader \o LShort
    /\ call.op = "on_commit_tick"
    /\ call.cell # None
    /\ emitted_stable_len = 1
    /\ transcript = <<rendered_lines[1]>>

\* C17: while a message streams, the stable boundary is either at the end of
\* rendered_lines (the tail is empty) or at emitted_stable_len with nothing
\* queued (everything not yet emitted is tail), never in between.
C17_BinaryTailPolicy ==
    phase = "streaming" =>
        \/ enqueued_stable_len = Len(rendered_lines)
        \/ enqueued_stable_len = emitted_stable_len /\ queue = <<>>

C17_Witness ==
    /\ phase = "streaming"
    /\ call.op = "push"
    /\ emitted_stable_len > 0
    /\ enqueued_stable_len = emitted_stable_len
    /\ enqueued_stable_len < Len(rendered_lines)
    /\ table_holdback_state(raw_source) = "PendingHeader"

C19_TailStartsStream ==
    tail_starts_stream <=> (~header_emitted /\ queue = <<>>)

C19_Witness ==
    /\ phase = "streaming"
    /\ rendered_lines # <<>>
    /\ queue = <<>>
    /\ tail_starts_stream

\* what StreamController's tick does to the state both controllers have, and
\* the plan cell as the formatting of the lines StreamController emits
SameTick(lines) ==
    /\ queue' = drop(queue, Len(lines))
    /\ emitted_stable_len' = emitted_after_drain(emitted_stable_len, lines)
    /\ header_emitted' = emit_header(lines, header_emitted)
    /\ call'.ret = (drop(queue, Len(lines)) = <<>>)
    /\ (call'.cell = None) <=> (emit_cell(lines, header_emitted) = None)
    /\ call'.cell # None =>
           /\ call'.cell[1].lines =
                  plan_out_lines(emit_cell(lines, header_emitted)[1].lines,
                                 FALSE, header_emitted, top_padding_emitted)
           /\ call'.cell[1].is_stream_continuation =
                  ~emit_cell(lines, header_emitted)[1].is_first_line
    /\ UNCHANGED <<buffer, has_seen_delta, width, raw_source, rendered_lines,
                   enqueued_stable_len>>

\* C20: every push, on_commit_tick, on_commit_tick_batch and set_width of
\* PlanStreamController changes raw_source, rendered_lines, both boundaries
\* and the queue exactly as the same call on StreamController does from the
\* same state, and the lines it emits are the formatting of the lines
\* StreamController emits.
C20_SharedBufferingMachine ==
    [][CASE call'.op = "push" -> \E n \in 1..MaxDelta : Push(n)
         [] call'.op = "set_width" -> \E w \in Widths : SetWidth(w)
         [] call'.op = "on_commit_tick" -> SameTick(step(queue))
         [] call'.op = "on_commit_tick_batch" ->
                \E max_lines \in {0, MaxBatch} :
                    SameTick(drain_n(queue, max(max_lines, 1)))
         [] OTHER -> TRUE]_vars

C20_Witness ==
    /\ call.op = "on_commit_tick_batch"
    /\ call.cell # None
    /\ call.cell[1].is_stream_continuation
    /\ top_padding_emitted
    /\ resizes = 1
    /\ Len(call.cell[1].lines) = 2

\* a padding line inside the plan block
PlanPadding == <<" ", " ">> \o PaddingLine

\* the lines handed over for one plan: banner, separator and top padding
\* first and once, bottom padding last and only once finalize has returned
PlanBlockShape ==
    IF cells = <<>> THEN transcript = <<>>
    ELSE
        /\ Len(transcript) >= 3
        /\ transcript[1] = PlanHeaderLine
        /\ transcript[2] = PaddingLine
        /\ transcript[3] = PlanPadding
        /\ \A i \in 4..Len(transcript) :
               /\ transcript[i] # PlanHeaderLine
               /\ transcript[i] = PlanPadding
                      => (phase = "finalized" /\ i = Len(transcript))
        /\ phase = "finalized"
               => (Len(transcript) >= 4
                   /\ transcript[Len(transcript)] = PlanPadding)
        /\ \A i \in 1..Len(cells) : cells[i] = (i = 1)

\* C21: across the cells of one plan the banner with its separator line comes
\* once, in the first cell, the top padding once, directly before the first
\* plan content, and the bottom padding only in the cell finalize produces; a
\* tick with no lines produces no cell and consumes neither one-shot flag.
C21_PlanEmitFormatting ==
    [][/\ PlanBlockShape'
       /\ (call'.op \in {"on_commit_tick", "on_commit_tick_batch"}
           /\ queue = <<>>)
             => /\ call'.cell = None
                /\ transcript' = transcript
                /\ header_emitted' = header_emitted
                /\ top_padding_emitted' = top_padding_emitted]_vars

C21_Witness ==
    /\ phase = "finalized"
    /\ Len(cells) >= 3
    /\ Len(transcript) >= 7
    /\ transcript[Len(transcript)] = PlanPadding
    /\ transcript[4] # PlanPadding

\* a push that commits text and whose target lies below enqueued_stable_len
Retreat ==
    /\ call'.op = "push"
    /\ raw_source' # raw_source
    /\ target_stable_len(raw_source', rendered_lines', emitted_stable_len)
           < enqueued_stable_len

\* C22: when the target of sync_stable_queue is below enqueued_stable_len the
\* queue becomes exactly rendered_lines[emitted_stable_len..target],
\* enqueued_stable_len becomes the target, emitted_stable_len stays, the
\* return value says whether the queue is non-empty, and the queue followed
\* by the tail is every rendered line not yet emitted.
C22_BoundaryRetreat ==
    [][Retreat =>
         /\ enqueued_stable_len' =
                max(max(Len(rendered_lines')
                        - active_tail_budget_lines(raw_source', rendered_lines'),
                        0),
                    emitted_stable_len)
         /\ emitted_stable_len <= enqueued_stable_len'
         /\ queue' = lines_between(rendered_lines', emitted_stable_len,
                                   enqueued_stable_len')
         /\ emitted_stable_len' = emitted_stable_len
         /\ call'.ret = (queue' # <<>>)
         /\ queue' \o drop(rendered_lines', enqueued_stable_len')
                = drop(rendered_lines', emitted_stable_len)]_vars

C22_Witness ==
    /\ call.op = "push"
    /\ raw_source = LHeader \o LShort \o LHeader
    /\ emitted_stable_len = 1
    /\ enqueued_stable_len = 1
    /\ queue = <<>>
    /\ Len(rendered_lines) > 2

\* a tick took the first k queued lines, in order, and nothing else changed
Drained(k) ==
    /\ queue' = drop(queue, k)
    /\ emitted_stable_len' = emitted_stable_len + k
    /\ call'.cell = IF k = 0 THEN None
                    ELSE Some([lines |-> SubSeq(queue, 1, k),
                               is_first_line |-> ~header_emitted])
    /\ transcript' = transcript \o SubSeq(queue, 1, k)
    /\ call'.ret = (queue' = <<>>)
    /\ k = 0 => header_emitted' = header_emitted
    /\ UNCHANGED <<raw_source, rendered_lines, enqueued_stable_len, width,
                   buffer, has_seen_delta>>

\* C23: on_commit_tick takes one line from the front of the queue and
\* advances emitted_stable_len by the number taken, leaving raw_source,
\* rendered_lines and enqueued_stable_len alone; on an empty queue it returns
\* no cell and changes nothing; idle is true exactly when the queue is empty
\* after the call.
C23_OnCommitTick ==
    [][call'.op = "on_commit_tick" => Drained(min(1, Len(queue)))]_vars

C23_Witness ==
    /\ call.op = "on_commit_tick"
    /\ call.cell # None
    /\ ~call.ret
    /\ emitted_stable_len = 2
    /\ queue # <<>>

\* C24: on_commit_tick_batch(max_lines) takes min(max(1, max_lines),
\* queued_lines()) lines from the front of the queue, in order, and advances
\* emitted_stable_len by that number.
C24_OnCommitTickBatch ==
    [][call'.op = "on_commit_tick_batch" =>
           Drained(min(max(1, call'.max_lines[1]), Len(queue)))]_vars

C24_Witness ==
    /\ call.op = "on_commit_tick_batch"
    /\ call.max_lines = Some(0)
    /\ call.cell # None
    /\ Len(call.cell[1].lines) = 1
    /\ queue # <<>>

\* C25: a push whose delta has no newline leaves raw_source, rendered_lines,
\* both boundaries, the queue and header_emitted unchanged and returns false;
\* only the collector's buffer and has_seen_delta change.
C25_PushWithoutNewline ==
    [][(call'.op = "push"
        /\ find_from(drop(pushed', Len(pushed)), NL, 1) = 0)
          => /\ UNCHANGED <<raw_source, rendered_lines, emitted_stable_len,
                            enqueued_stable_len, queue, header_emitted, width,
                            transcript>>
             /\ ~call'.ret
             /\ buffer' = buffer \o drop(pushed', Len(pushed))
             /\ has_seen_delta' = TRUE]_vars

C25_Witness ==
    /\ call.op = "push"
    /\ ~call.ret
    /\ buffer = <<"h">>
    /\ raw_source # <<>>
    /\ queue # <<>>

\* C26: the lines still queued when finalize is called are handed over once,
\* at the front of the finalize cell and behind everything emitted earlier,
\* followed by the rendered lines beyond enqueued_stable_len; the queue is
\* empty afterwards.
C26_FinalizeBypassesQueue ==
    [][(call'.op = "finalize" /\ queue # <<>>) =>
         /\ call'.cell # None
         /\ call'.cell[1].lines =
                queue \o drop(append_markdown_agent(pushed, width),
                              enqueued_stable_len)
         /\ transcript' = transcript \o call'.cell[1].lines
         /\ queue' = <<>>
         /\ enqueued_stable_len' = 0 /\ emitted_stable_len' = 0]_vars

\* the target of the claim: max(emitted, rendered length minus tail budget),
\* the budget being the whole render unless the holdback state is None
ClaimedTarget(source, rendered, emitted) ==
    max(emitted,
        IF table_holdback_state(source) = "None" THEN Len(rendered) ELSE 0)

\* C27: after set_width to a different width with a non-empty raw_source,
\* rendered_lines is the render of raw_source at the new width, the queue is
\* exactly rendered_lines[emitted_stable_len..target] for the remapped
\* emitted_stable_len, and enqueued_stable_len is the target.
C27_ResizeRebuildsQueue ==
    [][IsResize =>
         /\ rendered_lines' = append_markdown_agent(raw_source, width')
         /\ enqueued_stable_len' =
                ClaimedTarget(raw_source, rendered_lines', emitted_stable_len')
         /\ queue' = lines_between(rendered_lines', emitted_stable_len',
                                   enqueued_stable_len')
         /\ raw_source' = raw_source]_vars

C27_Witness ==
    /\ call.op = "set_width"
    /\ resizes = 1
    /\ width = Some(2)
    /\ emitted_stable_len > 0
    /\ Len(queue) >= 2
    /\ Len(rendered_lines) > Len(append_markdown_agent(raw_source, None))

\* the lines of a finalize cell whose content is lines, for either controller
FinalCellLines(cell, lines) ==
    IF "is_first_line" \in DOMAIN cell THEN lines
    ELSE plan_out_lines(lines, TRUE, header_emitted, top_padding_emitted)

\* C28: set_width to a different width while raw_source is empty changes the
\* width only, and a finalize while raw_source is still empty emits the whole
\* buffered text rendered at the width then current.
C28_ResizeBeforeCommit ==
    [][/\ (call'.op = "set_width" /\ width' # width /\ raw_source = <<>>)
             => UNCHANGED <<emitted_stable_len, enqueued_stable_len,
                            rendered_lines, queue, raw_source, buffer,
                            header_emitted, transcript>>
       /\ (call'.op = "finalize" /\ raw_source = <<>> /\ buffer # <<>>)
             => /\ call'.cell # None
                /\ call'.cell[1].lines =
                       FinalCellLines(call'.cell[1],
                                      append_markdown_agent(buffer, width))
                /\ buffer = pushed]_vars

C28_Witness ==
    /\ call.op = "finalize"
    /\ call.cell # None
    /\ resizes = 1
    /\ width = Some(2)
    /\ pushed = <<"a", "b", "c">>
    /\ Len(call.cell[1].lines) >= 2

\* the ends of the newline-terminated prefixes of raw_source that render at
\* most target_count lines at the current width
FittingPrefixes(target_count) ==
    {i \in NewlineEnds(raw_source) : PrefixCount(i, width) <= target_count}

Largest(S) == IF S = {} THEN 0 ELSE CHOOSE i \in S : \A j \in S : j <= i

ReachingPrefixes(target_count) ==
    {i \in NewlineEnds(raw_source) : PrefixCount(i, width) >= target_count}

Smallest(S) == CHOOSE i \in S : \A j \in S : i <= j

\* the first prefix that reaches target_count if it renders exactly that
\* many lines, otherwise the longest prefix before it
FirstReachingPrefix(target_count) ==
    IF ReachingPrefixes(target_count) = {}
      THEN Largest(NewlineEnds(raw_source))
    ELSE IF PrefixCount(Smallest(ReachingPrefixes(target_count)), width)
              = target_count
      THEN Smallest(ReachingPrefixes(target_count))
    ELSE Largest({j \in NewlineEnds(raw_source) :
                     j < Smallest(ReachingPrefixes(target_count))})

RECURSIVE ClaimedContexts(_, _, _, _, _)
ClaimedContexts(ls, in_fence, fence_char, fence_len, fence_context) ==
    IF ls = <<>> THEN <<>>
    ELSE
      LET trimmed == trim_start(Head(ls))
          m == parse_fence_marker(trimmed)
          here == IF in_fence THEN fence_context ELSE "Outside"
      IN  <<here>> \o
          (IF m # None /\ ~in_fence
             THEN ClaimedContexts(Tail(ls), TRUE, m[1][1], m[1][2],
                                  IF is_markdown_fence(trimmed, m[1][2])
                                    THEN "Markdown" ELSE "Other")
           ELSE IF /\ m # None /\ in_fence
                   /\ m[1][1] = fence_char
                   /\ m[1][2] >= fence_len
                   /\ trim(drop(trimmed, m[1][2])) = <<>>
             THEN ClaimedContexts(Tail(ls), FALSE, fence_char, fence_len, "Other")
           ELSE ClaimedContexts(Tail(ls), in_fence, fence_char, fence_len,
                                fence_context))

\* C30: the detector gives every line of raw_source the fence context it has
\* when an open fence is closed only by a line with the same marker
\* character, a run at least as long as the opening one and nothing but
\* whitespace after it.
C30_FenceClosingRule ==
    LET lines == parse_lines_with_fence_state(raw_source)
    IN  [i \in 1..Len(lines) |-> lines[i].fence_context]
            = ClaimedContexts(split(raw_source, NL), FALSE, "NUL", 0, "Other")

\* the lines of the committed source, as the detector sees them
SourceLines == split_inclusive(raw_source)

\* the cell structure of a line read off its characters: t is the trimmed
\* line, lo..hi the part inside one optional leading and trailing pipe
InnerLo(t) == IF t # <<>> /\ t[1] = "|" THEN 2 ELSE 1
InnerHi(t) ==
    IF Len(t) >= InnerLo(t) /\ t[Len(t)] = "|" THEN Len(t) - 1 ELSE Len(t)
PipesBefore(t, i) == Cardinality({j \in InnerLo(t)..i : t[j] = "|"})
CellCount(t) == PipesBefore(t, InnerHi(t)) + 1
CellIndexes(t, k) ==
    {i \in InnerLo(t)..InnerHi(t) : t[i] # "|" /\ PipesBefore(t, i) = k - 1}
CellText(t, k) ==
    LET idx == CellIndexes(t, k)
    IN  IF idx = {} THEN <<>>
        ELSE SubSeq(t, CHOOSE i \in idx : \A j \in idx : i <= j,
                       CHOOSE i \in idx : \A j \in idx : i >= j)

SegmentsAsClaimed(line) ==
    LET t == trim(line)
    IN  IF t = <<>> \/ CellCount(t) < 2 THEN <<>>
        ELSE << [k \in 1..CellCount(t) |-> trim(CellText(t, k))] >>

\* C31: parse_table_segments trims the line, strips at most one leading and
\* one trailing pipe, splits on pipes and trims each piece, and returns the
\* segments exactly when there are two or more; a blank line and a single
\* cell give no result.
C31_SegmentParsing ==
    \A i \in 1..Len(SourceLines) :
        parse_table_segments(SourceLines[i]) = SegmentsAsClaimed(SourceLines[i])

C31_Witness ==
    /\ Len(SourceLines) = 2
    /\ SourceLines[1] = <<"|", " ", "o", " ", "|", NL>>
    /\ parse_table_segments(SourceLines[1]) = <<>>
    /\ SourceLines[2] = LHeaderP
    /\ parse_table_segments(SourceLines[2]) = << << <<"a">>, <<"b">> >> >>

\* a delimiter segment read off its characters: an optional colon, three or
\* more dashes, an optional colon
DelimiterSegmentAsClaimed(segment) ==
    LET t == trim(segment)
    IN  \E a \in {0, 1}, b \in {0, 1} :
            /\ Len(t) >= a + 3 + b
            /\ a = 1 => t[1] = ":"
            /\ b = 1 => t[Len(t)] = ":"
            /\ \A i \in (a + 1)..(Len(t) - b) : t[i] = "-"

\* C32: a segment is a delimiter segment exactly when, trimmed and without
\* one leading and one trailing colon, it is three or more dashes; a line is
\* a delimiter line exactly when it parses into two or more segments that are
\* all delimiter segments.
C32_DelimiterRecognition ==
    \A i \in 1..Len(SourceLines) :
        LET p == parse_table_segments(SourceLines[i])
        IN  /\ p # <<>> =>
                \A k \in 1..Len(p[1]) :
                    is_table_delimiter_segment(p[1][k])
                        <=> DelimiterSegmentAsClaimed(p[1][k])
            /\ is_table_delimiter_line(SourceLines[i]) <=>
                /\ p # <<>>
                /\ Len(p[1]) >= 2
                /\ \A k \in 1..Len(p[1]) : DelimiterSegmentAsClaimed(p[1][k])

C32_Witness ==
    /\ Len(SourceLines) = 2
    /\ SourceLines[1] = <<":", "-", "-", "-", ":", "|", "-", "-", "-", ":", NL>>
    /\ is_table_delimiter_line(SourceLines[1])
    /\ SourceLines[2] = <<"-", "-", "|", "-", "-", NL>>
    /\ ~is_table_delimiter_line(SourceLines[2])

\* blockquote markers put in front of a table line
QuotePrefixes ==
    { <<">">>, <<">", " ">>, <<">", ">">>, <<">", " ", ">", " ">>, <<" ", ">">> }

\* the source with every line that holds a pipe behind the prefix q
QuoteTableLines(source, q) ==
    LET ls == split_inclusive(source)
    IN  concat([i \in 1..Len(ls) |->
                   IF \E j \in 1..Len(ls[i]) : ls[i][j] = "|" THEN q \o ls[i]
                   ELSE ls[i]])

\* C33: the holdback verdict of a source does not change when every table
\* line gets one or more blockquote markers in front: a blockquoted header
\* and delimiter pair is Confirmed and a blockquoted trailing header is
\* PendingHeader, as without the markers.
C33_BlockquoteTransparency ==
    \A q \in QuotePrefixes :
        table_holdback_state(QuoteTableLines(raw_source, q))
            = table_holdback_state(raw_source)

C33_Witness ==
    /\ raw_source = QuoteTableLines(LHeader \o LDelim, <<">", " ">>)
    /\ raw_source # LHeader \o LDelim
    /\ table_holdback_state(raw_source) = "Confirmed"
    /\ table_holdback_state(LHeader \o LDelim) = "Confirmed"

\* C34: in every state the animation queue holds enqueued_stable_len minus
\* emitted_stable_len lines and they are the rendered lines from
\* emitted_stable_len to enqueued_stable_len, so emitted lines, queued lines
\* and current_tail_lines() partition rendered_lines.
C34_QueueAccounting ==
    /\ Len(queue) = enqueued_stable_len - emitted_stable_len
    /\ queue = SubSeq(rendered_lines, emitted_stable_len + 1, enqueued_stable_len)

\* the verdict of the holdback detector on the committed source
Verdict == table_holdback_state(raw_source)

\* C35: once the committed source is Confirmed it stays Confirmed after every
\* later push; no push enqueues anything from then on, the queue stays empty
\* and emitted_stable_len stops advancing until finalize, which alone brings
\* the remaining lines to the transcript.
C35_ConfirmedAbsorbing ==
    [][ (Verdict = "Confirmed" /\ phase = "streaming") =>
            /\ phase' = "streaming" =>
                /\ table_holdback_state(raw_source') = "Confirmed"
                /\ queue' = <<>>
                /\ call'.op = "push" => ~call'.ret
                /\ width' = width => emitted_stable_len' = emitted_stable_len
                /\ transcript' = transcript
            /\ phase' # "streaming" =>
                /\ call'.op = "finalize"
                /\ transcript' = transcript_lines(transcript, call'.cell)
      ]_vars

C35_Witness ==
    /\ phase = "streaming"
    /\ raw_source = LHeader \o LDelim \o LRow \o LBlank \o LShort
    /\ Verdict = "Confirmed"
    /\ call.op = "push"
    /\ ~call.ret
    /\ queue = <<>>
    /\ emitted_stable_len = 0
    /\ Len(rendered_lines) > 0

\* C36: while streaming raw_source is empty or ends with a newline, and every
\* push leaves it unchanged or extends it by a suffix, so the raw_source
\* before a push is a prefix of the raw_source after it.
C36_RawSourceAppendOnly ==
    /\ [](phase = "streaming" =>
            (raw_source = <<>> \/ raw_source[Len(raw_source)] = NL))
    /\ [][ (phase = "streaming" /\ phase' = "streaming") =>
              /\ IsPrefix(raw_source, raw_source')
              /\ call'.op # "push" => raw_source' = raw_source
              /\ raw_source' # raw_source =>
                    /\ call'.op = "push"
                    /\ raw_source' \o buffer' = raw_source \o buffer \o concat(SubSeq(pending, 1, Len(pending) - Len(pending'))) ]_vars

C36_Witness ==
    /\ phase = "streaming"
    /\ call.op = "push"
    /\ raw_source = <<"a", "b", "c", "d", "e", NL>> \o LShort
    /\ buffer = <<"h">>

\* the lines of a source as the shared scanner is given them: blockquote
\* prefix stripped, enabled outside fences and inside markdown fences
ScanLines(source) ==
    LET lines == parse_lines_with_fence_state(source)
    IN  [i \in 1..Len(lines) |->
            [text |-> strip_blockquote_prefix(lines[i].text),
             enabled |-> lines[i].fence_context # "Other"]]

\* C37: for every source the controller's table_holdback_state gives the
\* verdict that table_detect::scan_table_pattern gives on the same lines with
\* the blockquote prefix stripped and enabled = (fence context is not Other).
C37_ScannersAgree ==
    table_holdback_state(raw_source) = scan_table_pattern(ScanLines(raw_source))

\* C38: PlanStreamController.finalize always returns a cell, also when nothing
\* was pushed or everything was emitted already; the cell ends with the
\* bottom padding line, and when nothing was emitted before it starts with the
\* "Proposed Plan" header, its separator and the top padding line.
C38_PlanFinalizeAlwaysEmits ==
    [][ call'.op = "finalize" =>
            /\ call'.cell # None
            /\ LET lines == call'.cell[1].lines
               IN  /\ lines # <<>>
                   /\ lines[Len(lines)] = PlanPadding
                   /\ ~header_emitted =>
                        /\ Len(lines) >= 4
                        /\ lines[1] = PlanHeaderLine
                        /\ lines[2] = PaddingLine
                        /\ lines[3] = PlanPadding
                        /\ ~call'.cell[1].is_stream_continuation
                   /\ header_emitted =>
                        /\ lines[1] # PlanHeaderLine
                        /\ call'.cell[1].is_stream_continuation
                   /\ transcript' = transcript \o lines ]_vars

C38_Witness ==
    /\ phase = "finalized"
    /\ call.op = "finalize"
    /\ pushed = <<>>
    /\ call.cell = Some([lines |-> <<PlanHeaderLine, PaddingLine, PlanPadding,
                                     PlanPadding>>,
                         is_stream_continuation |-> FALSE])

\* a slice start..end of a sequence of the given length is in range
SliceInRange(start, end, length) == 0 <= start /\ start <= end /\ end <= length

\* the slices sync_stable_queue takes in a push that committed text
PushSlicesInRange ==
    /\ (enqueued_stable_len' < enqueued_stable_len
        /\ emitted_stable_len < enqueued_stable_len')
          => SliceInRange(emitted_stable_len, enqueued_stable_len',
                          Len(rendered_lines'))
    /\ enqueued_stable_len' > enqueued_stable_len
          => SliceInRange(enqueued_stable_len, enqueued_stable_len',
                          Len(rendered_lines'))

\* the slices set_width takes: raw_source[..emitted_bytes] and the rebuild
SetWidthSlicesInRange ==
    /\ emitted_stable_len > 0 =>
          LET emitted_bytes == source_bytes_for_rendered_count(
                                   raw_source, width, emitted_stable_len)
          IN  /\ emitted_bytes \in {0} \cup NewlineEnds(raw_source)
              /\ SliceInRange(0, emitted_bytes, Len(raw_source))
    /\ emitted_stable_len' < enqueued_stable_len'
          => SliceInRange(emitted_stable_len', enqueued_stable_len',
                          Len(rendered_lines'))

\* the slice rendered[emitted_stable_len..] finalize takes
FinalizeSliceInRange ==
    LET rendered == append_markdown_agent(
                        raw_source \o finalize_and_drain_source(buffer), width)
    IN  emitted_stable_len < Len(rendered)
          => SliceInRange(emitted_stable_len, Len(rendered), Len(rendered))

\* C39: every slice taken by push, set_width, finalize and current_tail_lines
\* has start <= end <= length, also when a render has fewer lines than the
\* one before; the offset set_width gets from source_bytes_for_rendered_count
\* is 0 or just after a newline and at most the length of raw_source.
C39_SlicesInRange ==
    /\ [](SliceInRange(min(enqueued_stable_len, Len(rendered_lines)),
                       Len(rendered_lines), Len(rendered_lines)))
    /\ [][ /\ (call'.op = "push" /\ raw_source' # raw_source)
                => PushSlicesInRange
           /\ (call'.op = "set_width" /\ width' # width /\ raw_source # <<>>)
                => SetWidthSlicesInRange
           /\ call'.op = "finalize" => FinalizeSliceInRange ]_vars

C39_Witness ==
    /\ call.op = "set_width"
    /\ resizes = 1
    /\ width = None
    /\ raw_source # <<>>
    /\ 0 < emitted_stable_len
    /\ emitted_stable_len < Len(rendered_lines)
    /\ Len(rendered_lines) < Len(transcript)

\* the longest text a message delivers
MaxPushed == Largest({Len(concat(m)) : m \in Messages})

\* a tick has reported idle: nothing queued, nothing enqueued but not emitted
DrainedIdle ==
    /\ queue = <<>>
    /\ emitted_stable_len = enqueued_stable_len
    /\ call.op \in {"on_commit_tick", "on_commit_tick_batch"}
    /\ call.ret

\* C40: from every reachable state, unless another push, set_width or
\* finalize comes in between, repeated commit ticks reach a state where the
\* queue is empty, idle is reported and emitted_stable_len equals
\* enqueued_stable_len; every tick moves lines from the head of the queue to
\* the transcript, so each queued line is emitted exactly once.
C40_DrainingTerminates ==
    /\ \A r \in 0..MaxResizes, k \in 0..MaxPushed :
          (phase = "streaming" /\ resizes = r /\ Len(pushed) = k)
              ~> \/ DrainedIdle
                 \/ resizes # r
                 \/ Len(pushed) # k
                 \/ phase # "streaming"
    /\ [][ call'.op \in {"on_commit_tick", "on_commit_tick_batch"} =>
              /\ transcript' \o queue' = transcript \o queue
              /\ Len(queue') <= Len(queue)
              /\ queue # <<>> => Len(queue') < Len(queue)
              /\ call'.ret = (queue' = <<>>) ]_vars

C40_Witness ==
    /\ DrainedIdle
    /\ phase = "streaming"
    /\ pending = <<>>
    /\ resizes = MaxResizes
    /\ Len(transcript) >= 3
    /\ emitted_stable_len = Len(rendered_lines)

====
